---- MODULE Spec2Model ----
(***************************************************************************)
(* State-machine model of adb-ssl-unpinning.py: one invocation of the      *)
(* script (argument check, tool provisioning, package extraction, per-     *)
(* split patching, uninstall and multi-APK install), the three storage     *)
(* roots that survive an invocation, and the manifest patch as a function  *)
(* on manifest files.                                                      *)
(*                                                                         *)
(* Strings are sequences of tokens: the separators ":", "/" and "." are    *)
(* tokens of their own and every other token is a separator-free word, so  *)
(* that split(':'), Path.name, Path.stem, endswith and glob are computed   *)
(* as Python computes them.  HTTP requests, device-bridge calls and        *)
(* subprocesses may fail; local file operations are taken to succeed.      *)
(***************************************************************************)
EXTENDS Integers, Sequences, FiniteSets, TLC

----------------------------------------------------------------------------
(* Bounds *)

MaxRuns == 2
MaxAssets == 2
MaxVersion == 2
MaxApply == 2

----------------------------------------------------------------------------
(* String helpers (token sequences) *)

EndsWith(s, suffix) ==
    /\ Len(s) >= Len(suffix)
    /\ SubSeq(s, Len(s) - Len(suffix) + 1, Len(s)) = suffix

Positions(s, tok) == {i \in 1..Len(s) : s[i] = tok}

Max(S) == CHOOSE x \in S : \A y \in S : y <= x

Min(S) == CHOOSE x \in S : \A y \in S : x <= y

\* apk.split(':', 1)[1]: what follows the first colon
AfterColon(line) ==
    SubSeq(line, Min(Positions(line, ":")) + 1, Len(line))

\* Path(apk_path).name: what follows the last slash
PathName(path) ==
    IF Positions(path, "/") = {} THEN path
    ELSE SubSeq(path, Max(Positions(path, "/")) + 1, Len(path))

\* Path.stem: the name without its last suffix; a leading or trailing dot
\* starts no suffix
PathStem(name) ==
    LET dots == Positions(name, ".")
    IN  IF dots = {} THEN name
        ELSE IF Max(dots) > 1 /\ Max(dots) < Len(name)
             THEN SubSeq(name, 1, Max(dots) - 1)
             ELSE name

JarSuffix == <<".", "jar">>
ApkSuffix == <<".", "apk">>

RepackName(file_name) == file_name \o <<".", "repack", ".", "apk">>
SignedName(file_name) == file_name \o <<".", "repack-aligned-debugSigned", ".", "apk">>
PatchedName(file_name) == file_name \o <<"_patched", ".", "apk">>

\* patched_output.glob("*.apk")
GlobApk(dir) == {n \in DOMAIN dir : EndsWith(n, ApkSuffix)}

----------------------------------------------------------------------------
(* Directories as functions from file name to content *)

EmptyDir == [n \in {} |-> 0]

Put(dir, name, content) ==
    [n \in DOMAIN dir \cup {name} |-> IF n = name THEN content ELSE dir[n]]

Remove(dir, names) == [n \in DOMAIN dir \ names |-> dir[n]]

----------------------------------------------------------------------------
(* Inputs *)

\* the lines `pm path <package>` prints
BaseLine == <<"package", ":", "/", "data", "/", "base", ".", "apk">>
SplitAbiLine ==
    <<"package", ":", "/", "data", "/", "split_config", ".", "arm64_v8a", ".", "apk">>
SplitDpiLine ==
    <<"package", ":", "/", "data", "/", "split_config", ".", "xhdpi", ".", "apk">>

PathLists ==
    { <<>>, <<BaseLine>>, <<BaseLine, SplitAbiLine>>, <<BaseLine, SplitDpiLine>> }

ArgCounts == {2, 3}

\* names of release assets
AssetNames ==
    { <<"apktool", ".", "jar">>,
      <<"signer", ".", "jar">>,
      <<"signer", ".", "jar", ".", "sha256">> }

Asset == [name : AssetNames]

AssetLists == UNION {[1..n -> Asset] : n \in 0..MaxAssets}

NoAsset == [name |-> <<>>]

\* the bytes a download URL may serve
Contents == 1..MaxVersion

\* manifest files
None == "<none>"
NSC == "@xml/network_security_config"
NscValues == {None, "", NSC, "@xml/pinned"}

Manifests ==
    { m \in [decl : {"none", "apktool", "etree"},
             prefix : {"android", "ns0"},
             comments : BOOLEAN,
             app : BOOLEAN,
             nsc : NscValues] : ~m.app => m.nsc = None }

\* what apktool writes: its own declaration, the android prefix, no comments
ApktoolManifests ==
    { m \in Manifests : /\ m.decl = "apktool" /\ m.prefix = "android"
                        /\ ~m.comments /\ m.nsc # "" }

\* decompiled trees: the manifest and res/xml/network_security_config.xml
Trees ==
    { t \in [manifest : ApktoolManifests, policy : {"absent", "app"}] :
        (t.policy = "app") <=> (t.manifest.nsc = NSC) }

\* a configuration split carries code-free resources: its manifest has a
\* bare application element, and it has no policy file
SplitTrees ==
    { t \in Trees : t.manifest.app /\ t.manifest.nsc = None }

Ops == {"download", "query", "pull", "decompile", "recompile", "sign",
        "uninstall", "install"}

NoCalls == [o \in Ops |-> 0]

----------------------------------------------------------------------------
(* State *)

VARIABLES
    pc,           \* position of the running invocation
    error,        \* why the invocation aborted ("none" while it has not)
    exitCode,     \* process exit status, -1 while running
    run,          \* number of the invocation
    argc,         \* len(argv)
    tool,         \* which download_latest_jar call of __main__ is running
    assets,       \* release_info["assets"]
    jar_asset,    \* the selected asset
    unlinked,     \* whether this call deleted an existing cached file
    jar_response, \* the bytes of the last download (0: none yet)
    utils,        \* UTILS_DIR: file name -> bytes
    device,       \* the lines the device prints for `pm path`
    installed,    \* what the device holds: "original", "none", "patched"
    apks,         \* pull_package's apks
    idx,          \* position of pull_package's loop
    packagesDir,  \* PACKAGES_DIR / package_name: file name -> remote path
    patchedDir,   \* PATCHED_DIR / <package>_patched: name -> content
    todo,         \* files the loop of patch_package has not reached
    apk,          \* the file the loop of patch_package is at
    calls,        \* external invocations made by this invocation
    installArgs,  \* the files given to adb install-multiple
    mfile,        \* a manifest file (manifest specification)
    mapplied,     \* patch_manifest calls made on mfile
    mwrites       \* tree.write calls made on mfile

ctlVars == <<pc, error, exitCode>>
provVars == <<tool, assets, jar_asset, unlinked, jar_response>>
devVars == <<device, installed>>
pullVars == <<apks, idx>>
loopVars == <<todo, apk>>
mVars == <<mfile, mapplied, mwrites>>

vars == <<pc, error, exitCode, run, argc, tool, assets, jar_asset, unlinked,
          jar_response, utils, device, installed, apks, idx, packagesDir, patchedDir, todo,
          apk, calls, installArgs, mfile, mapplied, mwrites>>

NoManifest == [decl |-> "none", prefix |-> "android", comments |-> FALSE,
               app |-> FALSE, nsc |-> None]

\* a process at its first statement
Fresh ==
    /\ pc = "start"
    /\ error = "none"
    /\ exitCode = -1
    /\ tool = 0
    /\ assets = <<>>
    /\ jar_asset = NoAsset
    /\ unlinked = FALSE
    /\ jar_response = 0
    /\ apks = <<>>
    /\ idx = 0
    /\ todo = {}
    /\ apk = <<>>
    /\ calls = NoCalls
    /\ installArgs = {}

IdleManifest ==
    /\ mfile = NoManifest
    /\ mapplied = 0
    /\ mwrites = 0

Init ==
    /\ Fresh
    /\ run = 1
    /\ argc \in ArgCounts
    /\ utils = EmptyDir
    /\ packagesDir = EmptyDir
    /\ patchedDir = EmptyDir
    /\ device \in PathLists
    /\ installed = IF device = <<>> THEN "none" ELSE "original"
    /\ IdleManifest

\* an uncaught exception or exit(1): the interpreter exits with status 1
Abort(reason) ==
    /\ pc' = "aborted"
    /\ error' = reason
    /\ exitCode' = 1

Goto(label) ==
    /\ pc' = label
    /\ UNCHANGED <<error, exitCode>>

Called(op) == calls' = [calls EXCEPT ![op] = @ + 1]

----------------------------------------------------------------------------
(* __main__ *)

CheckArgs ==
    /\ pc = "start"
    /\ IF argc < 3
       THEN Abort("usage") /\ UNCHANGED tool
       ELSE Goto("fetch") /\ tool' = 1
    /\ UNCHANGED <<run, argc, assets, jar_asset, unlinked, jar_response,
                   utils, devVars,
                   pullVars, packagesDir, patchedDir, loopVars, calls,
                   installArgs, mVars>>

----------------------------------------------------------------------------
(* download_latest_jar *)

IsJar(item) == EndsWith(item.name, JarSuffix)

\* mutant: the last jar asset of the listing instead of the first
LastJar(list) ==
    LET jars == {i \in 1..Len(list) : IsJar(list[i])}
    IN  IF jars = {} THEN NoAsset ELSE list[Max(jars)]

\* next((item for item in assets if item['name'].endswith('.jar')), None)
FirstJar(list) ==
    LET jars == {i \in 1..Len(list) : IsJar(list[i])}
    IN  IF jars = {} THEN NoAsset ELSE list[Min(jars)]

\* requests.get(download_url); raise_for_status(); json()
FetchRelease ==
    /\ pc = "fetch"
    /\ \/ Abort("http") /\ UNCHANGED assets
       \/ Goto("select") /\ assets' \in AssetLists
    /\ UNCHANGED <<run, argc, tool, jar_asset, unlinked, jar_response,
                   utils, devVars,
                   pullVars, packagesDir, patchedDir, loopVars, calls,
                   installArgs, mVars>>

\* the asset is chosen; a cached file of its name is deleted
SelectJar ==
    /\ pc = "select"
    /\ jar_asset' = FirstJar(assets)
    /\ IF jar_asset' = NoAsset
       THEN Abort("nojar") /\ UNCHANGED <<utils, unlinked>>
       ELSE /\ Goto("download")
            /\ unlinked' = (jar_asset'.name \in DOMAIN utils)
            /\ utils' = Remove(utils, {jar_asset'.name})
    /\ UNCHANGED <<run, argc, tool, assets, jar_response, devVars, pullVars,
                   packagesDir, patchedDir, loopVars, calls, installArgs,
                   mVars>>

\* requests.get(browser_download_url); raise_for_status(); the bytes are
\* written; __main__ goes on to the next tool or to patch_package
DownloadJar ==
    /\ pc = "download"
    /\ Called("download")
    /\ \/ Abort("http") /\ UNCHANGED <<utils, provVars>>
       \/ /\ jar_response' \in Contents
          /\ utils' = Put(utils, jar_asset.name, jar_response')
          /\ assets' = <<>>
          /\ jar_asset' = NoAsset
          /\ unlinked' = FALSE
          /\ IF tool = 1
             THEN Goto("fetch") /\ tool' = 2
             ELSE Goto("query") /\ tool' = 0
    /\ UNCHANGED <<run, argc, devVars, pullVars, packagesDir, patchedDir,
                   loopVars, installArgs, mVars>>

----------------------------------------------------------------------------
(* pull_package *)

\* mutant: the empty answer is not checked; pull_package returns after a
\* loop of no turn
QueryPathsUnchecked ==
    /\ pc = "query"
    /\ Called("query")
    /\ \/ Abort("adb") /\ UNCHANGED pullVars
       \/ /\ apks' = device
          /\ IF apks' = <<>>
             THEN Goto("prepare") /\ UNCHANGED idx
             ELSE Goto("pull") /\ idx' = 1
    /\ UNCHANGED <<run, argc, provVars, utils, devVars, packagesDir,
                   patchedDir, loopVars, installArgs, mVars>>

\* apks = device.shell('pm path ...').splitlines(); no line: exit(1)
QueryPaths ==
    /\ pc = "query"
    /\ Called("query")
    /\ \/ Abort("adb") /\ UNCHANGED pullVars
       \/ /\ apks' = device
          /\ IF apks' = <<>>
             THEN Abort("notfound") /\ UNCHANGED idx
             ELSE Goto("pull") /\ idx' = 1
    /\ UNCHANGED <<run, argc, provVars, utils, devVars, packagesDir,
                   patchedDir, loopVars, installArgs, mVars>>

\* one turn of the loop: device.sync.pull(apk_path, output_path / name)
PullApk ==
    /\ pc = "pull"
    /\ Called("pull")
    /\ LET apk_path == AfterColon(apks[idx])
       IN  \/ Abort("adb") /\ UNCHANGED <<packagesDir, idx>>
           \/ /\ packagesDir' = Put(packagesDir, PathName(apk_path), apk_path)
              /\ IF idx = Len(apks)
                 THEN Goto("prepare") /\ UNCHANGED idx
                 ELSE Goto("pull") /\ idx' = idx + 1
    /\ UNCHANGED <<run, argc, provVars, utils, devVars, apks, patchedDir,
                   loopVars, installArgs, mVars>>

----------------------------------------------------------------------------
(* patch_manifest, add_network_security_config *)

\* mutant: the attribute is tested against the value to be set
LacksOwnConfig(m) == m.nsc # NSC

\* application.get("{android}networkSecurityConfig") is None
LacksConfig(m) == m.nsc = None

\* tree.write(manifest_path, encoding='utf-8', xml_declaration=True):
\* ElementTree's own declaration and generated prefixes, comments dropped
TreeWrite(m) == [m EXCEPT !.decl = "etree", !.prefix = "ns0", !.comments = FALSE]

\* the manifest file patch_manifest leaves (the manifest has an application)
patch_manifest(m) ==
    IF LacksConfig(m) THEN TreeWrite([m EXCEPT !.nsc = NSC]) ELSE m

\* the tree add_network_security_config leaves
add_network_security_config(t) == [t EXCEPT !.policy = "fixed"]

----------------------------------------------------------------------------
(* patch_package *)

\* mutant: every split is taken for the base split
IsAnySplit(file_name) == TRUE

IsBase(file_name) == file_name = <<"base">>

Unpacked(name) == PathStem(name)

\* the loop takes the next file of original_output.iterdir(), in any order,
\* or is over
NextApk(files) ==
    IF files = {}
    THEN Goto("uninstall") /\ UNCHANGED loopVars
    ELSE /\ Goto("decompile")
         /\ \E f \in files : apk' = f /\ todo' = files \ {f}

\* mutant: the package is uninstalled before the loop
PreparePatchedUninstalled ==
    /\ pc = "prepare"
    /\ patchedDir' = EmptyDir
    /\ NextApk(DOMAIN packagesDir)
    /\ Called("uninstall")
    /\ installed' = "none"
    /\ UNCHANGED <<run, argc, provVars, utils, device, pullVars,
                   packagesDir, installArgs, mVars>>

\* shutil.rmtree(patched_output); patched_output.mkdir(); the loop starts
PreparePatched ==
    /\ pc = "prepare"
    /\ patchedDir' = EmptyDir
    /\ NextApk(DOMAIN packagesDir)
    /\ UNCHANGED <<run, argc, provVars, utils, devVars, pullVars,
                   packagesDir, calls, installArgs, mVars>>

\* java -jar apktool d apk -o unpacked_apk_path -s
Decompile ==
    /\ pc = "decompile"
    /\ Called("decompile")
    /\ \/ Abort("tool") /\ UNCHANGED patchedDir
       \/ /\ Unpacked(apk) \notin DOMAIN patchedDir
          /\ \E t \in (IF IsBase(PathStem(apk)) THEN Trees ELSE SplitTrees) :
                patchedDir' = Put(patchedDir, Unpacked(apk),
                                  [kind |-> "dir", tree |-> t])
          /\ IF IsBase(PathStem(apk))
             THEN Goto("manifest")
             ELSE Goto("recompile")
    /\ UNCHANGED <<run, argc, provVars, utils, devVars, pullVars,
                   packagesDir, loopVars, installArgs, mVars>>

\* patch_manifest(unpacked_apk_path); without an application element
\* application.get raises
PatchManifest ==
    /\ pc = "manifest"
    /\ LET d == patchedDir[Unpacked(apk)]
       IN  IF ~d.tree.manifest.app
           THEN Abort("exception") /\ UNCHANGED patchedDir
           ELSE /\ Goto("config")
                /\ patchedDir' =
                     Put(patchedDir, Unpacked(apk),
                         [d EXCEPT !.tree.manifest = patch_manifest(@)])
    /\ UNCHANGED <<run, argc, provVars, utils, devVars, pullVars,
                   packagesDir, loopVars, calls, installArgs, mVars>>

\* add_network_security_config(unpacked_apk_path)
AddConfig ==
    /\ pc = "config"
    /\ Goto("recompile")
    /\ LET d == patchedDir[Unpacked(apk)]
       IN  patchedDir' =
             Put(patchedDir, Unpacked(apk),
                 [d EXCEPT !.tree = add_network_security_config(@)])
    /\ UNCHANGED <<run, argc, provVars, utils, devVars, pullVars,
                   packagesDir, loopVars, calls, installArgs, mVars>>

\* java -jar apktool b unpacked_apk_path -o packed_apk_path
Recompile ==
    /\ pc = "recompile"
    /\ Called("recompile")
    /\ \/ Abort("tool") /\ UNCHANGED patchedDir
       \/ /\ Goto("sign")
          /\ patchedDir' =
               Put(patchedDir, RepackName(PathStem(apk)),
                   [kind |-> "apk", tree |-> patchedDir[Unpacked(apk)].tree])
    /\ UNCHANGED <<run, argc, provVars, utils, devVars, pullVars,
                   packagesDir, loopVars, installArgs, mVars>>

\* what the loop body leaves once the signer has written its output: the
\* packed file and the unpacked tree removed, the signed file renamed
Collected(dir, file_name) ==
    Put(Remove(dir, {RepackName(file_name), file_name}),
        PatchedName(file_name),
        [kind |-> "signed", tree |-> dir[RepackName(file_name)].tree])

\* mutant: a failed signing is retried from the recompilation
SignApkRetried ==
    /\ pc = "sign"
    /\ Called("sign")
    /\ \/ Goto("recompile") /\ UNCHANGED <<patchedDir, loopVars>>
       \/ /\ patchedDir' = Collected(patchedDir, PathStem(apk))
          /\ NextApk(todo)
    /\ UNCHANGED <<run, argc, provVars, utils, devVars, pullVars,
                   packagesDir, installArgs, mVars>>

\* java -jar signer -a packed_apk_path; os.remove; shutil.rmtree; rename;
\* the loop goes on
SignApk ==
    /\ pc = "sign"
    /\ Called("sign")
    /\ \/ Abort("tool") /\ UNCHANGED <<patchedDir, loopVars>>
       \/ /\ patchedDir' = Collected(patchedDir, PathStem(apk))
          /\ NextApk(todo)
    /\ UNCHANGED <<run, argc, provVars, utils, devVars, pullVars,
                   packagesDir, installArgs, mVars>>

\* device.uninstall(package_name): raises when the bridge fails; returns
\* whether or not the package manager removed the package
Uninstall ==
    /\ pc = "uninstall"
    /\ Called("uninstall")
    /\ \/ Abort("adb") /\ UNCHANGED installed
       \/ Goto("install") /\ installed' = "none"
       \/ Goto("install") /\ UNCHANGED installed
    /\ UNCHANGED <<run, argc, provVars, utils, device, pullVars,
                   packagesDir, patchedDir, loopVars, installArgs, mVars>>

\* mutant: after a failed install the original package is put back
InstallRestored ==
    /\ pc = "install"
    /\ Called("install")
    /\ installArgs' = GlobApk(patchedDir)
    /\ \/ Abort("tool") /\ installed' = "original"
       \/ /\ pc' = "done"
          /\ exitCode' = 0
          /\ installed' = "patched"
          /\ UNCHANGED error
    /\ UNCHANGED <<run, argc, provVars, utils, device, pullVars,
                   packagesDir, patchedDir, loopVars, mVars>>

\* adb install-multiple <every *.apk of patched_output>
Install ==
    /\ pc = "install"
    /\ Called("install")
    /\ installArgs' = GlobApk(patchedDir)
    /\ \/ Abort("tool") /\ UNCHANGED installed
       \/ /\ pc' = "done"
          /\ exitCode' = 0
          /\ installed' = "patched"
          /\ UNCHANGED error
    /\ UNCHANGED <<run, argc, provVars, utils, device, pullVars,
                   packagesDir, patchedDir, loopVars, mVars>>

----------------------------------------------------------------------------
(* One invocation *)

Next ==
    \/ CheckArgs
    \/ FetchRelease
    \/ SelectJar
    \/ DownloadJar
    \/ QueryPaths
    \/ PullApk
    \/ PreparePatched
    \/ Decompile
    \/ PatchManifest
    \/ AddConfig
    \/ Recompile
    \/ SignApk
    \/ Uninstall
    \/ Install

Spec == Init /\ [][Next]_vars

----------------------------------------------------------------------------
(* Repeated invocations: the storage roots persist; the device may hold   *)
(* another build of the package, or be another device                     *)

Rerun ==
    /\ pc \in {"done", "aborted"}
    /\ run < MaxRuns
    /\ run' = run + 1
    /\ pc' = "start"
    /\ error' = "none"
    /\ exitCode' = -1
    /\ tool' = 0
    /\ assets' = <<>>
    /\ jar_asset' = NoAsset
    /\ unlinked' = FALSE
    /\ jar_response' = 0
    /\ apks' = <<>>
    /\ idx' = 0
    /\ todo' = {}
    /\ apk' = <<>>
    /\ calls' = NoCalls
    /\ installArgs' = {}
    /\ argc' \in ArgCounts
    /\ device' \in PathLists
    /\ installed' = IF device' = <<>> THEN "none" ELSE "original"
    /\ UNCHANGED <<utils, packagesDir, patchedDir, mVars>>

NextRerun == Next \/ Rerun

SpecRerun == Init /\ [][NextRerun]_vars

----------------------------------------------------------------------------
(* patch_manifest applied repeatedly to one manifest file *)

InitManifest ==
    /\ Fresh
    /\ run = 1
    /\ argc = 3
    /\ utils = EmptyDir
    /\ packagesDir = EmptyDir
    /\ patchedDir = EmptyDir
    /\ device = <<>>
    /\ installed = "none"
    /\ mfile \in Manifests
    /\ mapplied = 0
    /\ mwrites = 0

\* one call of patch_manifest on the file
ApplyPatchManifest ==
    /\ error = "none"
    /\ mapplied < MaxApply
    /\ mfile.app
    /\ mapplied' = mapplied + 1
    /\ mfile' = patch_manifest(mfile)
    /\ mwrites' = IF LacksConfig(mfile) THEN mwrites + 1 ELSE mwrites
    /\ UNCHANGED <<ctlVars, run, argc, provVars, utils, devVars, pullVars,
                   packagesDir, patchedDir, loopVars, calls, installArgs>>

\* root.find(".//application") is None: application.get raises
ApplyRaises ==
    /\ error = "none"
    /\ mapplied < MaxApply
    /\ ~mfile.app
    /\ Abort("exception")
    /\ UNCHANGED <<run, argc, provVars, utils, devVars, pullVars,
                   packagesDir, patchedDir, loopVars, calls, installArgs,
                   mVars>>

NextManifest == ApplyPatchManifest \/ ApplyRaises

SpecManifest == InitManifest /\ [][NextManifest]_vars

----------------------------------------------------------------------------
(* Vocabulary of the properties *)

Range(seq) == {seq[i] : i \in DOMAIN seq}

\* the local names of the splits the device reports
DeviceSplits == {PathName(AfterColon(line)) : line \in Range(device)}

\* the package query has returned, and returned no line
ZeroPathsReported ==
    /\ calls["query"] > 0
    /\ pc # "query"
    /\ error # "adb"
    /\ device = <<>>

Stage(p) ==
    CASE p = "start" -> "Idle"
      [] p \in {"fetch", "select", "download"} -> "Provisioning"
      [] p \in {"query", "pull"} -> "Extracting"
      [] p \in {"prepare", "decompile", "manifest", "config", "recompile",
                "sign"} -> "Patching"
      [] p \in {"uninstall", "install"} -> "Installing"
      [] p = "done" -> "Done"
      [] p = "aborted" -> "Aborted"

SubStage(p) ==
    CASE p = "prepare" -> "Setup"
      [] p = "decompile" -> "Decompiling"
      [] p \in {"manifest", "config"} -> "ManifestEdit"
      [] p = "recompile" -> "Recompiling"
      [] p = "sign" -> "Signing"
      [] OTHER -> "None"

StageOrder ==
    <<"Idle", "Provisioning", "Extracting", "Patching", "Installing", "Done">>

Rank(stage) == CHOOSE i \in 1..Len(StageOrder) : StageOrder[i] = stage

SubStageSteps ==
    { <<"Setup", "Decompiling">>,
      <<"Decompiling", "ManifestEdit">>,
      <<"Decompiling", "Recompiling">>,
      <<"ManifestEdit", "Recompiling">>,
      <<"Recompiling", "Signing">>,
      <<"Signing", "Decompiling">> }

\* every pulled file has its signed, renamed output
AllPatched ==
    \A f \in DOMAIN packagesDir :
        /\ PatchedName(PathStem(f)) \in DOMAIN patchedDir
        /\ patchedDir[PatchedName(PathStem(f))].kind = "signed"

----------------------------------------------------------------------------
(* C1 *)

\* C1 (as stated): if the device reports zero paths for the package, the
\* run exits with status 1 and no tool artifact has been downloaded, nothing
\* has been decompiled and no install has been attempted in the run.
C1_NoDownloadOnNotFound ==
    ZeroPathsReported =>
        /\ pc = "aborted"
        /\ exitCode = 1
        /\ calls["download"] = 0
        /\ calls["decompile"] = 0
        /\ calls["install"] = 0

\* C1 (amended): if the device reports zero paths for the package, the run
\* exits with status 1 and nothing has been pulled, decompiled, uninstalled
\* or installed in the run; both tool artifacts have been downloaded by then.
C1_ExitAfterProvisioning ==
    ZeroPathsReported =>
        /\ pc = "aborted"
        /\ exitCode = 1
        /\ calls["download"] = 2
        /\ calls["pull"] = 0
        /\ calls["decompile"] = 0
        /\ calls["uninstall"] = 0
        /\ calls["install"] = 0

C1_Witness == ZeroPathsReported /\ pc = "aborted" /\ error = "notfound"

----------------------------------------------------------------------------
(* C2 *)

C2_Step ==
    LET s == Stage(pc)
        t == Stage(pc')
    IN  /\ s # t =>
              \/ t = "Aborted" /\ s \notin {"Done", "Aborted"}
              \/ /\ s # "Aborted"
                 /\ t # "Aborted"
                 /\ Rank(t) = Rank(s) + 1
        /\ (s # "Patching" /\ t = "Patching") => pc' = "prepare"
        /\ (s = "Patching" /\ t = "Patching" /\ pc' # pc) =>
              \/ <<SubStage(pc), SubStage(pc')>> \in SubStageSteps
              \/ pc = "manifest" /\ pc' = "config"
        /\ (s = "Patching" /\ t = "Patching" /\ pc # "prepare") =>
              IF pc' = "decompile"
              THEN /\ apk' # apk
                   /\ PatchedName(PathStem(apk')) \notin DOMAIN patchedDir'
                   /\ PathStem(apk') \notin DOMAIN patchedDir'
              ELSE apk' = apk
        /\ (pc = "decompile" /\ pc' = "manifest") => PathStem(apk) = <<"base">>
        /\ (s = "Patching" /\ t = "Installing") =>
              pc = "sign" /\ pc' = "uninstall" /\ AllPatched'
        /\ (s = "Installing" /\ t = "Installing" /\ pc' # pc) =>
              pc = "uninstall" /\ pc' = "install"
        /\ pc' = "done" => pc = "install"

\* C2: a run moves through the stages only in the order Idle, Provisioning,
\* Extracting, Patching (per split: Decompiling, optional Manifest-edit,
\* Recompiling, Signing), Installing, Done; a failure goes directly to
\* Aborted, which is terminal; no stage is entered twice and none is skipped
\* on the way to Done.
C2_StageOrder == [][C2_Step]_vars

C2_Witness == pc = "done" /\ Cardinality(DOMAIN packagesDir) = 2

----------------------------------------------------------------------------
(* C3 *)

\* C3: whenever the install call is issued, the files passed to it are
\* exactly one <stem>_patched.apk per split the device reports for the
\* package, and nothing else.
C3_InstallSet ==
    calls["install"] > 0 =>
        installArgs = {PatchedName(PathStem(n)) : n \in DeviceSplits}

----------------------------------------------------------------------------
(* C4 *)

\* C4: after the extractor completes, in any run including a repeated one,
\* packages/<package-id>/ holds exactly one file per device-reported split
\* path, named by the remote basename: no missing file and no extra file.
C4_ExtractedExactly ==
    pc = "prepare" =>
        /\ DOMAIN packagesDir = DeviceSplits
        /\ Cardinality(DOMAIN packagesDir) = Len(apks)

----------------------------------------------------------------------------
(* C5 *)

\* C5: the uninstall is issued only after every split has been decompiled,
\* recompiled, signed and renamed; until then the package stays installed
\* on the device; the install is issued only after the uninstall.
C5_UninstallLast ==
    /\ calls["uninstall"] > 0 =>
          /\ todo = {}
          /\ DeviceSplits \subseteq DOMAIN packagesDir
          /\ AllPatched
          /\ calls["decompile"] = Cardinality(DOMAIN packagesDir)
          /\ calls["recompile"] = Cardinality(DOMAIN packagesDir)
          /\ calls["sign"] = Cardinality(DOMAIN packagesDir)
    /\ calls["uninstall"] = 0 =>
          installed = (IF device = <<>> THEN "none" ELSE "original")
    /\ calls["install"] > 0 => calls["uninstall"] > 0

C5_Witness == pc = "aborted" /\ installed = "none" /\ calls["install"] = 1

----------------------------------------------------------------------------
(* C6 *)

ToolOps == {"decompile", "recompile", "sign", "install"}

C6_Step ==
    /\ (pc' = "aborted" /\ error' = "tool") =>
          /\ \E op \in ToolOps : calls' = [calls EXCEPT ![op] = @ + 1]
          /\ UNCHANGED <<utils, packagesDir, patchedDir, installed>>
    /\ pc = "aborted" => UNCHANGED vars

\* C6: an external tool invocation (decompile, recompile, sign, install)
\* that returns nonzero aborts the run at once: nothing is invoked and no
\* device operation happens afterwards (no re-install after a failed
\* install), and the artifacts produced so far are left as they are.
C6_FailFast == [][C6_Step]_vars

C6_Witness ==
    /\ pc = "aborted"
    /\ error = "tool"
    /\ calls["install"] = 1
    /\ installed = "none"
    /\ DOMAIN patchedDir # {}

----------------------------------------------------------------------------
(* C7 *)

C7_Step ==
    /\ \A n \in DOMAIN patchedDir \cap DOMAIN patchedDir' :
          (patchedDir[n].kind = "dir" /\ n # <<"base">>) =>
              patchedDir'[n] = patchedDir[n]
    /\ (pc = "recompile" /\ pc' = "sign" /\ PathStem(apk) # <<"base">>) =>
          patchedDir'[RepackName(PathStem(apk))].tree
              = patchedDir[PathStem(apk)].tree
    /\ (pc = "decompile" /\ pc' # "aborted" /\ PathStem(apk) # <<"base">>) =>
          pc' = "recompile"
    /\ (pc = "decompile" /\ pc' # "aborted" /\ PathStem(apk) = <<"base">>) =>
          pc' = "manifest"
    /\ (pc = "config" /\ pc' = "recompile") =>
          patchedDir'[PathStem(apk)] # patchedDir[PathStem(apk)]

\* C7: only the split whose stem is 'base' has its decompiled tree changed
\* between decompile and recompile; the tree of every other split is, when
\* it is recompiled, what the decompile step produced.
C7_OnlyBaseEdited == [][C7_Step]_vars

C7_Witness ==
    /\ pc = "sign"
    /\ PathStem(apk) # <<"base">>
    /\ PatchedName(<<"base">>) \in DOMAIN patchedDir

----------------------------------------------------------------------------
(* C8 *)

C8_Step ==
    /\ mfile.nsc # None => (mfile' = mfile /\ mwrites' = mwrites)
    /\ mapplied >= 1 => (mfile' = mfile /\ mwrites' = mwrites)
    /\ (mfile.app /\ mfile.nsc = None /\ mapplied' = mapplied + 1) =>
          (mfile'.nsc = NSC /\ mwrites' = mwrites + 1)

\* C8: the manifest patch is idempotent: on a manifest with an application
\* element a second patch_manifest leaves the file as the first left it, and
\* a manifest whose application element already declares the attribute,
\* with any value, is not written at all.
C8_Idempotent == [][C8_Step]_vars

C8_Witness == mapplied = 2 /\ mwrites = 1 /\ mfile.nsc = NSC

----------------------------------------------------------------------------
(* C9 *)

NoJarListed == \A i \in 1..Len(assets) : ~EndsWith(assets[i].name, <<".", "jar">>)

C9_Step ==
    /\ pc = "fetch" => utils' = utils
    /\ (pc = "select" /\ NoJarListed) =>
          (pc' = "aborted" /\ utils' = utils)
    /\ (pc = "select" /\ ~NoJarListed) =>
          /\ pc' = "download"
          /\ \E i \in 1..Len(assets) :
                /\ jar_asset' = assets[i]
                /\ EndsWith(assets[i].name, <<".", "jar">>)
                /\ \A j \in 1..(i - 1) : ~EndsWith(assets[j].name, <<".", "jar">>)
          /\ DOMAIN utils' = DOMAIN utils \ {jar_asset'.name}
          /\ \A n \in DOMAIN utils' : utils'[n] = utils[n]
    /\ pc = "download" => jar_asset.name \notin DOMAIN utils
    /\ (pc = "download" /\ pc' # "aborted") =>
          /\ DOMAIN utils' = DOMAIN utils \cup {jar_asset.name}
          /\ utils'[jar_asset.name] = jar_response'
          /\ \A n \in DOMAIN utils : utils'[n] = utils[n]
    /\ (pc = "download" /\ pc' = "aborted") => utils' = utils

\* C9: for each tool the provisioner selects the first listed asset whose
\* name ends with '.jar'; without such an asset the run aborts and the call
\* deletes and writes nothing in the tool cache; otherwise a cached file of
\* that name is deleted before the download and, on success, the cached
\* file holds exactly the downloaded bytes.
C9_Provisioning == [][C9_Step]_vars

C9_Witness ==
    /\ run > 1
    /\ pc = "download"
    /\ unlinked
    /\ calls["download"] = 1

----------------------------------------------------------------------------
(* C10 *)

\* C10: once the manifest patcher and the policy writer have run on the
\* base split, the application element's networkSecurityConfig attribute
\* refers to the policy file that was written, for every input manifest.
C10_ConfigReferenced ==
    (pc = "recompile" /\ PathStem(apk) = <<"base">>) =>
        /\ patchedDir[<<"base">>].tree.policy = "fixed"
        /\ patchedDir[<<"base">>].tree.manifest.nsc = NSC

====
